---- MODULE Spec2Model ----
(***************************************************************************)
(* Lead (buyer) record lifecycle of itisrohit/esahayak_assignment:         *)
(* the PUT /api/buyers/[id] and POST /api/buyers handlers, the service     *)
(* layer (createNewBuyer, updateBuyerWithHistory), the Prisma data layer   *)
(* and the in-memory fixed-window rate limiter.                            *)
(*                                                                         *)
(* Every await on the database is a suspension point: a handler is cut     *)
(* into one action per database call, each action holding the database     *)
(* operation and the synchronous JavaScript that runs up to the next one.  *)
(***************************************************************************)
EXTENDS Integers, Sequences, FiniteSets, TLC

\* ---------------------------------------------------------------- bounds
MaxClock == 1          \* the clock reads 0..MaxClock in Spec and SpecSeq
MaxBudget == 2         \* budget values are 0..MaxBudget or null
MaxRequests == 3       \* requests served in Spec (two handlers may overlap)
MaxSeqRequests == 2    \* requests served in SpecSeq (one handler at a time)
MaxRlRequests == 12    \* requests submitted to the rate limiter (SpecRL)
MaxTicks == 2          \* clock advances in SpecRL
MaxLifeRequests == 3   \* requests served in SpecLife
MaxOneRequests == 4    \* requests served in SpecOne
\* SpecGate: requests of one client, enough to exhaust its rate limit window
MaxGateRequests == 11
MaxListRequests == 3   \* requests served in SpecList
MaxPageRequests == 4   \* requests served in SpecPage
MaxCsvRequests == 1    \* rows validated in SpecCsv
MaxCsvNumber == 2      \* budget columns hold the numbers 0..MaxCsvNumber
MaxPage == 2           \* pages asked for are 1..MaxPage
MaxLimit == 2          \* page sizes asked for are 1..MaxLimit

\* ------------------------------------------------------ program constants
RATE_LIMIT_WINDOW == 60000
RATE_LIMIT_MAX_REQUESTS == 10

\* ------------------------------------------------------ JavaScript values
\* A value is a record whose only field names its type.
Null == [null |-> TRUE]
Undefined == [undef |-> TRUE]
Num(n) == [num |-> n]
Str(s) == [str |-> s]
Arr(a) == [arr |-> a]
\* a Date object holding the instant t
DateOf(t) == [date |-> t]
\* the string Date.prototype.toISOString gives for the instant t
Iso(t) == [iso |-> t]
\* the uuid string the database generated for the n-th lead
Uuid(n) == [uuid |-> n]

IsNum(v) == "num" \in DOMAIN v
IsObject(v) == "arr" \in DOMAIN v \/ "date" \in DOMAIN v
IsString(v) == "str" \in DOMAIN v \/ "iso" \in DOMAIN v \/ "uuid" \in DOMAIN v

\* ToBoolean: null, undefined, 0 and "" are falsy
Truthy(v) ==
  IF v = Null \/ v = Undefined THEN FALSE
  ELSE IF IsNum(v) THEN v.num # 0
  ELSE IF "str" \in DOMAIN v THEN v.str # ""
  ELSE TRUE

\* a === b where a comes from the request body and b from a database row:
\* two objects (arrays, Dates) are never the same reference
StrictEquals(a, b) == IF IsObject(a) \/ IsObject(b) THEN FALSE ELSE a = b

\* o[k], undefined when o has no such key
Get(o, k) == IF k \in DOMAIN o THEN o[k] ELSE Undefined

\* a ?? b
Coalesce(a, b) == IF a = Null \/ a = Undefined THEN b ELSE a

\* {...a, ...b}
Spread(a, b) == [k \in DOMAIN a \cup DOMAIN b |-> IF k \in DOMAIN b THEN b[k] ELSE a[k]]

\* JSON.parse(JSON.stringify(v)) of one value: a Date becomes its ISO string
JsonValue(v) == IF "date" \in DOMAIN v THEN Iso(v.date) ELSE v

\* JSON.parse(JSON.stringify(o)) of a flat object: undefined members are dropped
JsonObject(o) == [k \in {j \in DOMAIN o : o[j] # Undefined} |-> JsonValue(o[k])]

\* new Date(v).getTime(): -1 stands for NaN (Invalid Date)
DateTime(v) ==
  IF "iso" \in DOMAIN v THEN v.iso
  ELSE IF "date" \in DOMAIN v THEN v.date
  ELSE -1

\* a < b on two Dates: false when either is Invalid Date
DateLess(a, b) == DateTime(a) # -1 /\ DateTime(b) # -1 /\ DateTime(a) < DateTime(b)

\* ------------------------------------------------------------ lead fields
\* The columns of a buyer row that the lifecycle rules read or write; the
\* remaining columns (fullName, phone, city, ...) are plain scalars no rule
\* looks at.
LeadKeys == {"id", "ownerId", "propertyType", "bhk", "budgetMin", "budgetMax",
             "tags", "createdAt", "updatedAt"}

PropertyTypeEnum == {"Apartment", "Villa", "Plot", "Office", "Retail"}
BHKEnum == {"ONE", "TWO", "THREE", "FOUR", "Studio"}

\* ["Apartment", "Villa"].includes(propertyType)
isResidential(propertyType) == propertyType \in {Str("Apartment"), Str("Villa")}

NoError == "none"
BudgetError == "budgetMin must be less than or equal to budgetMax"
BhkError == "BHK is required for residential property types"
ZodError == "Validation error"
NotFoundError == "Buyer not found"

\* ------------------------------------------- validation, buyer-service.ts
\* budgetMin && budgetMax && budgetMin > budgetMax
BudgetRangeBroken(budgetMin, budgetMax) ==
  Truthy(budgetMin) /\ Truthy(budgetMax) /\ budgetMin.num > budgetMax.num

validateBudget(budgetMin, budgetMax) ==
  IF BudgetRangeBroken(budgetMin, budgetMax) THEN BudgetError ELSE NoError

\* isResidential && !bhk
BhkMissing(propertyType, bhk) == isResidential(propertyType) /\ ~Truthy(bhk)

\* the two checks of createNewBuyer, in order
ValidateCreatePlain(buyerData) ==
  IF validateBudget(buyerData["budgetMin"], buyerData["budgetMax"]) # NoError
    THEN BudgetError
  ELSE IF BhkMissing(buyerData["propertyType"], Get(buyerData, "bhk"))
    THEN BhkError
  ELSE NoError

\* the two checks of updateBuyerWithHistory on the patch merged by ??
ValidateUpdatePlain(currentBuyer, buyerData) ==
  LET budgetMin == Coalesce(Get(buyerData, "budgetMin"), currentBuyer["budgetMin"])
      budgetMax == Coalesce(Get(buyerData, "budgetMax"), currentBuyer["budgetMax"])
      propertyType == Coalesce(Get(buyerData, "propertyType"), currentBuyer["propertyType"])
      bhk == Coalesce(Get(buyerData, "bhk"), currentBuyer["bhk"])
  IN IF BudgetRangeBroken(budgetMin, budgetMax) THEN BudgetError
     ELSE IF BhkMissing(propertyType, bhk) THEN BhkError
     ELSE NoError

\* ------------------------------------- validation, the Zod build (part_001)
\* z.number().int().nonnegative().nullable()
ZodBudgetField(v) == v = Null \/ (IsNum(v) /\ v.num >= 0)

\* z.union([BHKEnum, z.null()]).optional()
ZodBhkField(v) == v = Null \/ v = Undefined \/ ("str" \in DOMAIN v /\ v.str \in BHKEnum)

ZodPropertyTypeField(v) == "str" \in DOMAIN v /\ v.str \in PropertyTypeEnum

\* z.array(z.string())
ZodTagsField(v) == "arr" \in DOMAIN v

\* BudgetValidationSchema.safeParse({budgetMin, budgetMax}).success
BudgetValidationSchema(budgetMin, budgetMax) ==
  /\ ZodBudgetField(budgetMin)
  /\ ZodBudgetField(budgetMax)
  /\ (Truthy(budgetMin) /\ Truthy(budgetMax) => budgetMin.num <= budgetMax.num)

\* BHKValidationSchema.safeParse({propertyType, bhk}).success
BHKValidationSchema(propertyType, bhk) ==
  /\ ZodPropertyTypeField(propertyType)
  /\ ZodBhkField(bhk)
  /\ (~isResidential(propertyType) \/ bhk # Null)

validateBudgetZod(budgetMin, budgetMax) ==
  IF BudgetValidationSchema(budgetMin, budgetMax) THEN NoError
  ELSE IF BudgetRangeBroken(budgetMin, budgetMax) THEN BudgetError
  ELSE ZodError

validateBHK(propertyType, bhk) ==
  IF BHKValidationSchema(propertyType, bhk) THEN NoError
  ELSE IF BhkMissing(propertyType, bhk) THEN BhkError
  ELSE ZodError

\* the fields of BuyerFormSchema that are modelled; partial: every key optional
BuyerFormSchema(o, partial) ==
  /\ IF "propertyType" \in DOMAIN o THEN ZodPropertyTypeField(o["propertyType"]) ELSE partial
  /\ ZodBhkField(Get(o, "bhk"))
  /\ IF "budgetMin" \in DOMAIN o THEN ZodBudgetField(o["budgetMin"]) ELSE partial
  /\ IF "budgetMax" \in DOMAIN o THEN ZodBudgetField(o["budgetMax"]) ELSE partial
  /\ IF "tags" \in DOMAIN o THEN ZodTagsField(o["tags"]) ELSE partial

\* CreateBuyerSchema: the form plus ownerId, a string of length >= 1
CreateBuyerSchema(o) ==
  /\ BuyerFormSchema(o, FALSE)
  /\ "ownerId" \in DOMAIN o /\ "str" \in DOMAIN o["ownerId"] /\ o["ownerId"].str # ""

\* UpdateBuyerSchema: the partial form, id a string of length >= 1, updatedAt an
\* optional ISO datetime string (a Date object is not a string)
UpdateBuyerSchema(o) ==
  /\ BuyerFormSchema(o, TRUE)
  /\ "id" \in DOMAIN o /\ IsString(o["id"])
  /\ ("updatedAt" \in DOMAIN o => "iso" \in DOMAIN o["updatedAt"])

ValidateCreateZod(buyerData) ==
  IF ~CreateBuyerSchema(buyerData) THEN ZodError
  ELSE IF validateBudgetZod(buyerData["budgetMin"], buyerData["budgetMax"]) # NoError
    THEN validateBudgetZod(buyerData["budgetMin"], buyerData["budgetMax"])
  ELSE validateBHK(buyerData["propertyType"],
                   IF Truthy(Get(buyerData, "bhk")) THEN buyerData["bhk"] ELSE Null)

ValidateUpdateZod(currentBuyer, buyerData) ==
  LET mergedData == Spread(currentBuyer, buyerData)
      budgetMin == Coalesce(Get(buyerData, "budgetMin"), currentBuyer["budgetMin"])
      budgetMax == Coalesce(Get(buyerData, "budgetMax"), currentBuyer["budgetMax"])
      propertyType == Coalesce(Get(buyerData, "propertyType"), currentBuyer["propertyType"])
      bhk == Coalesce(Get(buyerData, "bhk"), currentBuyer["bhk"])
  IN IF ~UpdateBuyerSchema(mergedData) THEN ZodError
     ELSE IF validateBudgetZod(budgetMin, budgetMax) # NoError
       THEN validateBudgetZod(budgetMin, budgetMax)
     ELSE validateBHK(propertyType, bhk)

\* --------------------------------------------------- history diff engine
\* the loop over Object.entries(buyerData): keys whose value !== the current one
ChangedKeys(currentBuyer, buyerData) ==
  {k \in DOMAIN buyerData : ~StrictEquals(buyerData[k], Get(currentBuyer, k))}

\* the diff object after JSON.parse(JSON.stringify(diff))
ComputeDiff(currentBuyer, buyerData) ==
  [k \in ChangedKeys(currentBuyer, buyerData) |->
     JsonObject([oldValue |-> Get(currentBuyer, k), newValue |-> buyerData[k]])]

\* JSON.parse(JSON.stringify({action: "created", data: buyer}))
CreatedDiff(buyer) == [action |-> Str("created"), data |-> JsonObject(buyer)]

\* JSON.parse(JSON.stringify({action: "deleted", data: buyer}))
DeletedDiff(buyer) == [action |-> Str("deleted"), data |-> JsonObject(buyer)]

\* ------------------------------------------------------------ data layer
\* a variant of createBuyer that nulls bhk for a non-residential property type
createBuyerNullingBhk(buyerData, n, t) ==
  [k \in LeadKeys |->
     IF k = "id" THEN Uuid(n)
     ELSE IF k \in {"createdAt", "updatedAt"} THEN DateOf(t)
     ELSE IF k = "bhk" /\ ~isResidential(Get(buyerData, "propertyType")) THEN Null
     ELSE IF k \in DOMAIN buyerData THEN buyerData[k]
     ELSE Null]

\* prisma.buyer.create: the database assigns id, createdAt and updatedAt
createBuyer(buyerData, n, t) ==
  [k \in LeadKeys |->
     IF k = "id" THEN Uuid(n)
     ELSE IF k \in {"createdAt", "updatedAt"} THEN DateOf(t)
     ELSE IF k \in DOMAIN buyerData THEN buyerData[k]
     ELSE Null]

\* prisma.buyer.update with data {...buyerData, updatedAt: new Date()}
updateBuyer(row, buyerData, t) ==
  [k \in LeadKeys |->
     IF k = "updatedAt" THEN DateOf(t)
     ELSE IF k \in DOMAIN buyerData THEN buyerData[k]
     ELSE row[k]]

\* prisma.buyer.findUnique({where: {id}}): the row, or null
getBuyerById(rows, id) == IF id \in DOMAIN rows THEN rows[id] ELSE Null

\* the sequence s in the opposite order
Reverse(s) == [i \in 1..Len(s) |-> s[Len(s) + 1 - i]]

\* prisma.buyerHistory.findMany({where: {buyerId}, orderBy: {changedAt: "desc"}}):
\* changedAt is the time of the insert, so the entries of the lead come in the
\* opposite of their insertion order
getBuyerHistory(entries, id) ==
  Reverse(SelectSeq(entries, LAMBDA e : e.buyerId = Uuid(id)))

\* getBuyers: the where clause built from filters. Of the filters it reads
\* (searchTerm, city, propertyType, status, timeline) propertyType is the one
\* over a modelled field; a key it does not read plays no part.
BuyerWhere(row, filters) ==
  (Truthy(Get(filters, "propertyType")) /\ filters["propertyType"] # Str("all"))
    => row["propertyType"] = filters["propertyType"]

\* the orders in which the ids of S can be listed
Orderings(S) ==
  {f \in [1..Cardinality(S) -> S] : \A i, j \in 1..Cardinality(S) : f[i] = f[j] => i = j}

\* getBuyers: prisma.buyer.findMany({where, orderBy: {updatedAt: "desc"}}). The
\* order of rows with equal updatedAt is left to the database, so the result is
\* any one of these lists.
getBuyers(rows, filters) ==
  LET ids == {id \in DOMAIN rows : BuyerWhere(rows[id], filters)}
      desc == {f \in Orderings(ids) :
                 \A i, j \in 1..Cardinality(ids) :
                   i < j => rows[f[i]]["updatedAt"].date >= rows[f[j]]["updatedAt"].date}
  IN {[i \in 1..Cardinality(ids) |-> rows[f[i]]] : f \in desc}

\* Array.prototype.slice(start, end)
Slice(s, start, end) ==
  LET len == Len(s)
      clamp(k) == IF k < 0 THEN (IF len + k < 0 THEN 0 ELSE len + k)
                  ELSE IF k > len THEN len ELSE k
      from == clamp(start)
      to == clamp(end)
  IN IF from >= to THEN <<>> ELSE SubSeq(s, from + 1, to)

\* a variant of getBuyersWithPagination whose first page starts one page late
getBuyersWithPaginationOneBased(buyers, page, limit) ==
  [buyers |-> Slice(buyers, page * limit, page * limit + limit),
   totalCount |-> Len(buyers)]

\* getBuyersWithPagination, after getBuyers resolved with buyers
getBuyersWithPagination(buyers, page, limit) ==
  LET startIndex == (page - 1) * limit
  IN [buyers |-> Slice(buyers, startIndex, startIndex + limit),
      totalCount |-> Len(buyers)]

\* a variant of deleteBuyer that leaves the row in the table
deleteBuyerKeepsRow(rows, id) == rows

\* prisma.buyer.delete: the buyers table without the row id
deleteBuyer(rows, id) == [k \in DOMAIN rows \ {id} |-> rows[k]]

\* The buyer_history table after the buyer row id is deleted. The referential
\* action of buyer_history.buyerId is set in schema.prisma; history entries are
\* append-only and never deleted, so the table is left as it is.
HistoryAfterDelete(entries, id) == entries

\* ---------------------------------------------------- optimistic locking
\* a variant of IsStale with the comparison reversed
IsStaleReversed(body, currentBuyer) ==
  /\ Truthy(Get(body, "updatedAt"))
  /\ DateLess(currentBuyer["updatedAt"], body["updatedAt"])

\* route.ts PUT: body.updatedAt && clientUpdatedAt < serverUpdatedAt
IsStale(body, currentBuyer) ==
  /\ Truthy(Get(body, "updatedAt"))
  /\ DateLess(body["updatedAt"], currentBuyer["updatedAt"])

\* ----------------------------------------------------------- rate limiter
ClientIds == {"ip1", "ip2"}

\* a variant of WindowOver that keeps the window closed at its resetTime
WindowOverStrict(store, clientId, t) ==
  clientId \notin DOMAIN store \/ store[clientId].resetTime < t

\* isRateLimited: the window of clientId is absent or over at time t
WindowOver(store, clientId, t) ==
  clientId \notin DOMAIN store \/ store[clientId].resetTime <= t

\* a variant of isRateLimited that compares the count with <= instead of <
isRateLimitedInclusive(store, clientId, t) ==
  IF WindowOver(store, clientId, t)
    THEN [limited |-> FALSE,
          store |-> [k \in DOMAIN store \cup {clientId} |->
                       IF k = clientId
                         THEN [count |-> 1, resetTime |-> t + RATE_LIMIT_WINDOW]
                       ELSE store[k]]]
  ELSE IF store[clientId].count <= RATE_LIMIT_MAX_REQUESTS
    THEN [limited |-> FALSE, store |-> [store EXCEPT ![clientId].count = @ + 1]]
  ELSE [limited |-> TRUE, store |-> store]

\* isRateLimited called at time t: the value returned and rateLimitStore after
isRateLimited(store, clientId, t) ==
  IF WindowOver(store, clientId, t)
    THEN [limited |-> FALSE,
          store |-> [k \in DOMAIN store \cup {clientId} |->
                       IF k = clientId
                         THEN [count |-> 1, resetTime |-> t + RATE_LIMIT_WINDOW]
                       ELSE store[k]]]
  ELSE IF store[clientId].count < RATE_LIMIT_MAX_REQUESTS
    THEN [limited |-> FALSE, store |-> [store EXCEPT ![clientId].count = @ + 1]]
  ELSE [limited |-> TRUE, store |-> store]

\* Number.prototype.toString of a non-negative integer, as its decimal digits
DigitChars == <<"0", "1", "2", "3", "4", "5", "6", "7", "8", "9">>

RECURSIVE NumberToString(_)
NumberToString(n) ==
  IF n < 0 THEN <<"-">> \o NumberToString(0 - n)
  ELSE IF n < 10 THEN <<DigitChars[n + 1]>>
  ELSE Append(NumberToString(n \div 10), DigitChars[(n % 10) + 1])

\* Math.max(a, b)
MathMax(a, b) == IF a >= b THEN a ELSE b

\* ------------------------------------ validateCSVRow (csv-validator.test.ts)
\* Texts are sequences of characters; numbers are Num(n) or NaN.
NaN == [nan |-> TRUE]

\* the text without its leading and trailing blanks
RECURSIVE TrimBlanks(_)
TrimBlanks(s) ==
  IF Len(s) = 0 THEN s
  ELSE IF s[1] = " " THEN TrimBlanks(SubSeq(s, 2, Len(s)))
  ELSE IF s[Len(s)] = " " THEN TrimBlanks(SubSeq(s, 1, Len(s) - 1))
  ELSE s

AllDigits(s) == \A i \in DOMAIN s : \E d \in DOMAIN DigitChars : DigitChars[d] = s[i]

RECURSIVE DigitsValue(_)
DigitsValue(s) ==
  IF Len(s) = 0 THEN 0
  ELSE 10 * DigitsValue(SubSeq(s, 1, Len(s) - 1))
         + ((CHOOSE d \in DOMAIN DigitChars : DigitChars[d] = s[Len(s)]) - 1)

\* Number(text) for texts of digits, signs, blanks and letters: blanks around
\* the number are dropped, a blank or empty text is 0, an optional sign and
\* decimal digits give the integer, anything else is NaN
JsNumber(s) ==
  LET t == TrimBlanks(s)
  IN IF Len(t) = 0 THEN Num(0)
     ELSE IF t[1] \in {"-", "+"}
       THEN IF Len(t) > 1 /\ AllDigits(SubSeq(t, 2, Len(t)))
              THEN (IF t[1] = "-" THEN Num(0 - DigitsValue(SubSeq(t, 2, Len(t))))
                    ELSE Num(DigitsValue(SubSeq(t, 2, Len(t)))))
            ELSE NaN
     ELSE IF AllDigits(t) THEN Num(DigitsValue(t))
     ELSE NaN

\* isNaN(n)
IsNaN(n) == n = NaN

\* a number used as a condition: 0 and NaN are falsy
TruthyNumber(n) == n # NaN /\ n # Num(0)

\* a string used as a condition: the empty string is falsy
TruthyText(s) == Len(s) > 0

\* a variant of validateCSVRow that compares the budgets with >= instead of >
validateCSVRowNoEqual(row) ==
  IF Len(row) # 13 THEN FALSE
  ELSE LET fullName == row[1]  phone == row[3]  city == row[4]  propertyType == row[5]
           purpose == row[7]  budgetMin == row[8]  budgetMax == row[9]
           timeline == row[10]  source == row[11]
           min == JsNumber(budgetMin)
           max == JsNumber(budgetMax)
       IN IF \E f \in {fullName, phone, city, propertyType, purpose, timeline, source} :
               ~TruthyText(f) THEN FALSE
          ELSE IF TruthyText(budgetMin) /\ IsNaN(min) THEN FALSE
          ELSE IF TruthyText(budgetMax) /\ IsNaN(max) THEN FALSE
          ELSE IF TruthyNumber(min) /\ TruthyNumber(max) /\ min.num >= max.num THEN FALSE
          ELSE TRUE

\* validateCSVRow: the destructuring takes columns 0, 2, 3, 4, 6, 7, 8, 9, 10
\* of the row (here 1-based)
validateCSVRow(row) ==
  IF Len(row) # 13 THEN FALSE
  ELSE LET fullName == row[1]  phone == row[3]  city == row[4]  propertyType == row[5]
           purpose == row[7]  budgetMin == row[8]  budgetMax == row[9]
           timeline == row[10]  source == row[11]
           min == JsNumber(budgetMin)
           max == JsNumber(budgetMax)
       IN IF \E f \in {fullName, phone, city, propertyType, purpose, timeline, source} :
               ~TruthyText(f) THEN FALSE
          ELSE IF TruthyText(budgetMin) /\ IsNaN(min) THEN FALSE
          ELSE IF TruthyText(budgetMax) /\ IsNaN(max) THEN FALSE
          ELSE IF TruthyNumber(min) /\ TruthyNumber(max) /\ min.num > max.num THEN FALSE
          ELSE TRUE

\* a variant of RemainingHeader that counts the request being answered twice
RemainingHeaderOffByOne(store, clientId) ==
  IF clientId \notin DOMAIN store
    THEN NumberToString(RATE_LIMIT_MAX_REQUESTS)
  ELSE NumberToString(MathMax(0, RATE_LIMIT_MAX_REQUESTS - store[clientId].count - 1))

\* getRateLimitHeaders: the X-RateLimit-Remaining header
RemainingHeader(store, clientId) ==
  IF clientId \notin DOMAIN store
    THEN NumberToString(RATE_LIMIT_MAX_REQUESTS)
  ELSE NumberToString(MathMax(0, RATE_LIMIT_MAX_REQUESTS - store[clientId].count))

getRateLimitHeaders(store, clientId) ==
  [limit |-> NumberToString(RATE_LIMIT_MAX_REQUESTS),
   remaining |-> RemainingHeader(store, clientId),
   reset |-> IF clientId \notin DOMAIN store THEN <<"0">>
             ELSE NumberToString(store[clientId].resetTime)]

\* POST, the headers of the 429 answer:
\* {...getRateLimitHeaders(request), 'Retry-After': '60'}
TooManyRequestsHeaders(store, clientId) ==
  LET h == getRateLimitHeaders(store, clientId)
  IN [k \in DOMAIN h \cup {"retryAfter"} |-> IF k = "retryAfter" THEN <<"6", "0">> ELSE h[k]]

\* ------------------------------------------------------------------ state
VARIABLES
  build,           \* which revision of buyer-service.ts runs: "plain" or "zod"
  now,             \* the clock read by new Date() and Date.now()
  leads,           \* the buyers table: serial of the row -> row
  nextId,          \* serial of the next row the database creates
  history,         \* the buyer_history table, in insertion order
  rateLimitStore,  \* the rate limiter's Map: clientId -> {count, resetTime}
  req,             \* per request slot: the handler's position and locals
  nreq,            \* requests started so far
  ticks,           \* clock advances so far (SpecRL)
  admitted,        \* SpecRL: per clientId, the times of its admitted requests
  rlResp,          \* SpecRL: the answer to the last request
  pending          \* the slots whose row change committed and whose history
                   \* entry is not written yet, in the order of their commits

vars == <<build, now, leads, nextId, history, rateLimitStore, req, nreq,
          ticks, admitted, rlResp, pending>>

Procs == {1, 2}
Users == {"u1", "u2"}
EmptyObject == [k \in {} |-> Null]

IdleReq ==
  [pc |-> "idle", kind |-> "none", user |-> "", id |-> 0, body |-> EmptyObject,
   seen |-> -1, cur |-> Null, ts |-> -1, diff |-> EmptyObject, wrote |-> FALSE,
   status |-> 0, error |-> NoError,
   page |-> 0, limit |-> 0, list |-> <<>>, total |-> -1,
   row |-> <<>>, valid |-> FALSE]

NoResp == [clientId |-> "", at |-> -1, limited |-> FALSE, headers |-> <<>>]

Init ==
  /\ build \in {"plain", "zod"}
  /\ now = 0
  /\ leads = EmptyObject
  /\ nextId = 1
  /\ history = <<>>
  /\ rateLimitStore = EmptyObject
  /\ req = [p \in Procs |-> IdleReq]
  /\ nreq = 0
  /\ ticks = 0
  /\ admitted = [c \in ClientIds |-> <<>>]
  /\ rlResp = NoResp
  /\ pending = <<>>

rlVars == <<ticks, admitted, rlResp>>

\* the sequence s without the slot p
Without(s, p) == SelectSeq(s, LAMBDA x : x # p)

\* the handler of slot p returns: its locals die, the response stays
Respond(p, r, status, error) ==
  req' = [req EXCEPT ![p] = [r EXCEPT !.pc = "done", !.cur = Null,
                                      !.diff = EmptyObject,
                                      !.status = status, !.error = error]]

\* Slot p takes the next request. Slots are interchangeable, so a request
\* takes the lowest slot whose handler has returned.
Free(p, cap) ==
  /\ req[p].pc \in {"idle", "done"}
  /\ \A q \in Procs : q < p => req[q].pc \notin {"idle", "done"}
  /\ nreq < cap

ValidateCreate(buyerData) ==
  IF build = "zod" THEN ValidateCreateZod(buyerData) ELSE ValidateCreatePlain(buyerData)

ValidateUpdate(currentBuyer, buyerData) ==
  IF build = "zod" THEN ValidateUpdateZod(currentBuyer, buyerData)
  ELSE ValidateUpdatePlain(currentBuyer, buyerData)

\* The clock is read and shows t: the time that passed since the last reading
\* passes now. now is the latest reading; the clock never runs backwards.
ClockRead(t) == t >= now /\ now' = t

Times == now..MaxClock

\* ------------------------------------------------- PUT /api/buyers/[id]
\* The request arrives; getBuyerById; 404, 401 (not the owner), 409 (stale
\* version token); otherwise updateBuyerWithHistory is entered.
PutRequest(p, cap, user, id, body) ==
  /\ Free(p, cap)
  /\ nreq' = nreq + 1
  /\ LET currentBuyer == IF id \in DOMAIN leads THEN leads[id] ELSE Null
         r == [IdleReq EXCEPT !.kind = "PUT", !.user = user, !.id = id, !.body = body]
     IN IF currentBuyer = Null THEN Respond(p, r, 404, NotFoundError)
        ELSE IF currentBuyer["ownerId"] # Str(user) THEN Respond(p, r, 401, "Unauthorized")
        ELSE IF IsStale(body, currentBuyer)
          THEN Respond(p, [r EXCEPT !.seen = currentBuyer["updatedAt"].date], 409,
                       "Record changed, please refresh")
        ELSE req' = [req EXCEPT ![p] = [r EXCEPT !.pc = "svc_get",
                                                 !.seen = currentBuyer["updatedAt"].date]]
  /\ UNCHANGED <<build, now, leads, nextId, history, rateLimitStore, rlVars, pending>>

\* updateBuyerWithHistory: getBuyerByIdFromDb resolves
SvcGet(p) ==
  /\ req[p].pc = "svc_get"
  /\ IF req[p].id \in DOMAIN leads
       THEN req' = [req EXCEPT ![p].pc = "svc_validate", ![p].cur = leads[req[p].id]]
     ELSE Respond(p, req[p], 400, NotFoundError)
  /\ UNCHANGED <<build, now, leads, nextId, history, rateLimitStore, nreq, rlVars, pending>>

\* a variant of SvcValidate that sends the patch to the database before it
\* looks at the outcome of the validation
SvcValidateAfterUpdate(p, t) ==
  /\ req[p].pc = "svc_validate"
  /\ leads' = IF req[p].id \in DOMAIN leads
                THEN [leads EXCEPT ![req[p].id] = updateBuyer(leads[req[p].id], req[p].body, t)]
              ELSE leads
  /\ LET err == ValidateUpdate(req[p].cur, req[p].body)
     IN IF err # NoError THEN Respond(p, req[p], 400, err) /\ now' = now
        ELSE /\ req' = [req EXCEPT ![p].pc = "db_update", ![p].ts = t]
             /\ ClockRead(t)
  /\ UNCHANGED <<build, nextId, history, rateLimitStore, nreq, rlVars, pending>>

\* updateBuyerWithHistory: the validation, then updateBuyer builds its query
\* with new Date()
SvcValidate(p, t) ==
  /\ req[p].pc = "svc_validate"
  /\ LET err == ValidateUpdate(req[p].cur, req[p].body)
     IN IF err # NoError THEN Respond(p, req[p], 400, err) /\ now' = now
        ELSE /\ req' = [req EXCEPT ![p].pc = "db_update", ![p].ts = t]
             /\ ClockRead(t)
  /\ UNCHANGED <<build, leads, nextId, history, rateLimitStore, nreq, rlVars, pending>>

\* prisma.buyer.update commits; the diff against the row read earlier
DbUpdate(p) ==
  /\ req[p].pc = "db_update"
  /\ LET r == req[p]
         diff == ComputeDiff(r.cur, r.body)
     IN IF r.id \notin DOMAIN leads
          THEN /\ Respond(p, r, 400, "Record to update not found")
               /\ leads' = leads
               /\ pending' = pending
        ELSE /\ leads' = [leads EXCEPT ![r.id] = updateBuyer(leads[r.id], r.body, r.ts)]
             /\ IF diff # EmptyObject
                  THEN /\ req' = [req EXCEPT ![p].pc = "db_history", ![p].diff = diff,
                                             ![p].wrote = TRUE]
                       /\ pending' = Append(pending, p)
                ELSE /\ Respond(p, [r EXCEPT !.wrote = TRUE], 200, NoError)
                     /\ pending' = pending
  /\ UNCHANGED <<build, now, nextId, history, rateLimitStore, nreq, rlVars>>

\* prisma.buyerHistory.create commits; the handler answers
DbHistory(p) ==
  /\ req[p].pc = "db_history"
  /\ history' = Append(history, [buyerId |-> Uuid(req[p].id), changedBy |-> req[p].user,
                                 diff |-> req[p].diff])
  /\ Respond(p, req[p], IF req[p].kind = "POST" THEN 201 ELSE 200, NoError)
  /\ pending' = Without(pending, p)
  /\ UNCHANGED <<build, now, leads, nextId, rateLimitStore, nreq, rlVars>>

\* ----------------------------------------------------- POST /api/buyers
\* The request arrives: the rate limiter, then createNewBuyer's validation of
\* {...body, ownerId: user.id}
PostRequest(p, cap, clientId, user, body, t) ==
  /\ Free(p, cap)
  /\ nreq' = nreq + 1
  /\ ClockRead(t)
  /\ rateLimitStore' = isRateLimited(rateLimitStore, clientId, t).store
  /\ LET buyerData == Spread(body, [ownerId |-> Str(user)])
         r == [IdleReq EXCEPT !.kind = "POST", !.user = user, !.body = buyerData]
         err == ValidateCreate(buyerData)
     IN IF isRateLimited(rateLimitStore, clientId, t).limited THEN Respond(p, r, 429, "Too many requests")
        ELSE IF err # NoError THEN Respond(p, r, 400, err)
        ELSE req' = [req EXCEPT ![p] = [r EXCEPT !.pc = "db_create"]]
  /\ UNCHANGED <<build, leads, nextId, history, rlVars, pending>>

\* prisma.buyer.create commits; the row's timestamps are the time of the insert
DbCreate(p, t) ==
  /\ req[p].pc = "db_create"
  /\ ClockRead(t)
  /\ LET buyer == createBuyer(req[p].body, nextId, t)
     IN /\ leads' = [k \in DOMAIN leads \cup {nextId} |->
                       IF k = nextId THEN buyer ELSE leads[k]]
        /\ req' = [req EXCEPT ![p].pc = "db_history", ![p].id = nextId,
                                ![p].diff = CreatedDiff(buyer), ![p].wrote = TRUE]
  /\ nextId' = nextId + 1
  /\ pending' = Append(pending, p)
  /\ UNCHANGED <<build, history, rateLimitStore, nreq, rlVars>>

\* ------------------------------------------- deleteBuyerWithHistory(id, userId)
\* The service is called for the lead id on behalf of user.
DelRequest(p, cap, user, id) ==
  /\ Free(p, cap)
  /\ nreq' = nreq + 1
  /\ req' = [req EXCEPT ![p] = [IdleReq EXCEPT !.kind = "DELETE", !.user = user,
                                               !.id = id, !.pc = "del_get"]]
  /\ UNCHANGED <<build, now, leads, nextId, history, rateLimitStore, rlVars, pending>>

\* getBuyerByIdFromDb resolves; the history entry is built from the row read
DelGet(p) ==
  /\ req[p].pc = "del_get"
  /\ IF req[p].id \in DOMAIN leads
       THEN req' = [req EXCEPT ![p].pc = "del_history", ![p].cur = leads[req[p].id],
                               ![p].seen = leads[req[p].id]["updatedAt"].date,
                               ![p].diff = DeletedDiff(leads[req[p].id])]
     ELSE Respond(p, req[p], 400, NotFoundError)
  /\ UNCHANGED <<build, now, leads, nextId, history, rateLimitStore, nreq, rlVars, pending>>

\* createBuyerHistory commits the "deleted" entry
DelHistory(p) ==
  /\ req[p].pc = "del_history"
  /\ history' = Append(history, [buyerId |-> Uuid(req[p].id), changedBy |-> req[p].user,
                                 diff |-> req[p].diff])
  /\ req' = [req EXCEPT ![p].pc = "del_delete"]
  /\ UNCHANGED <<build, now, leads, nextId, rateLimitStore, nreq, rlVars, pending>>

\* prisma.buyer.delete commits, or throws when the row is gone
DelDelete(p) ==
  /\ req[p].pc = "del_delete"
  /\ IF req[p].id \in DOMAIN leads
       THEN /\ leads' = deleteBuyer(leads, req[p].id)
            /\ history' = HistoryAfterDelete(history, req[p].id)
            /\ Respond(p, [req[p] EXCEPT !.wrote = TRUE], 200, NoError)
     ELSE /\ Respond(p, req[p], 400, "Record to delete does not exist")
          /\ UNCHANGED <<leads, history>>
  /\ UNCHANGED <<build, now, nextId, rateLimitStore, nreq, rlVars, pending>>

\* --------------------------------- getBuyersWithPagination(page, limit, filters)
\* The service is called; getBuyers resolves with one query, the page is cut
\* from its result and returned.
ListBuyers(p, cap, page, limit, filters) ==
  /\ Free(p, cap)
  /\ nreq' = nreq + 1
  /\ \E buyers \in getBuyers(leads, filters) :
       LET result == getBuyersWithPagination(buyers, page, limit)
       IN Respond(p, [IdleReq EXCEPT !.kind = "LIST", !.body = filters, !.page = page,
                                      !.limit = limit, !.list = result.buyers,
                                      !.total = result.totalCount], 200, NoError)
  /\ UNCHANGED <<build, now, leads, nextId, history, rateLimitStore, rlVars, pending>>

\* ------------------------------------------------------ validateCSVRow(row)
\* The validator is called with a row and returns.
ValidateRow(p, cap, row) ==
  /\ Free(p, cap)
  /\ nreq' = nreq + 1
  /\ Respond(p, [IdleReq EXCEPT !.kind = "CSV", !.row = row,
                                 !.valid = validateCSVRow(row)], 200, NoError)
  /\ UNCHANGED <<build, now, leads, nextId, history, rateLimitStore, rlVars, pending>>

\* ------------------------------------------------------- storage failures
\* the positions at which a handler awaits the database
AwaitPositions == {"svc_get", "db_update", "db_create", "db_history",
                   "del_get", "del_history", "del_delete"}

\* The database call the handler of slot p awaits rejects (connection lost,
\* timeout): nothing is written, the error propagates to the caller.
AwaitRejects(p) ==
  /\ req[p].pc \in AwaitPositions
  /\ Respond(p, req[p], 400, "Can't reach database server")
  /\ pending' = Without(pending, p)
  /\ UNCHANGED <<build, now, leads, nextId, history, rateLimitStore, nreq, rlVars>>

\* ------------------------------------------------- the limiter on its own
\* A request of clientId reaches isRateLimited at the present time; the answer
\* carries the headers getRateLimitHeaders gives after the call.
RlRequest(clientId) ==
  /\ nreq < MaxRlRequests
  /\ nreq' = nreq + 1
  /\ LET r == isRateLimited(rateLimitStore, clientId, now)
     IN /\ rateLimitStore' = r.store
        /\ admitted' = IF r.limited THEN admitted
                       ELSE [admitted EXCEPT ![clientId] = Append(@, now)]
        /\ rlResp' = [clientId |-> clientId, at |-> now, limited |-> r.limited,
                      headers |-> IF r.limited THEN TooManyRequestsHeaders(r.store, clientId)
                                  ELSE getRateLimitHeaders(r.store, clientId)]
  /\ UNCHANGED <<build, now, leads, nextId, history, req, ticks, pending>>

\* time passes: a millisecond, or a window less a millisecond
RlTick(d) ==
  /\ ticks < MaxTicks
  /\ ticks' = ticks + 1
  /\ now' = now + d
  /\ UNCHANGED <<build, leads, nextId, history, rateLimitStore, req, nreq,
                 admitted, rlResp, pending>>

\* ----------------------------------------------------------------- inputs
Obj(k, v) == [x \in {k} |-> v]

Budgets == {Null} \cup {Num(n) : n \in 0..MaxBudget}
Types == {Str("Apartment"), Str("Plot")}
Bhks == {Null, Str("TWO")}
Tags == {Arr(<<>>), Arr(<<"hot">>)}
Tokens == {Iso(t) : t \in 0..MaxClock}

\* request bodies of POST: every field of the form
CreateBodies(types, bhks, mins, maxs, tags) ==
  {[propertyType |-> ty, bhk |-> b, budgetMin |-> lo, budgetMax |-> hi, tags |-> tg] :
     ty \in types, b \in bhks, lo \in mins, hi \in maxs, tg \in tags}

\* a patch with or without the version token in the body
WithToken(patches) ==
  patches \cup {Spread(pt, Obj("updatedAt", tok)) : pt \in patches, tok \in Tokens}

\* SpecSeq: patches of one field, of both budget bounds, of type and bhk, or empty
SeqPatches ==
  WithToken({EmptyObject}
    \cup {Obj("propertyType", v) : v \in Types}
    \cup {Obj("bhk", v) : v \in Bhks}
    \cup {Obj("budgetMin", v) : v \in Budgets}
    \cup {Obj("budgetMax", v) : v \in Budgets}
    \cup {Obj("tags", v) : v \in Tags}
    \cup {Spread(Obj("budgetMin", a), Obj("budgetMax", b)) : a \in Budgets, b \in Budgets}
    \cup {Spread(Obj("propertyType", a), Obj("bhk", b)) : a \in Types, b \in Bhks})

SeqCreateBodies == CreateBodies(Types, Bhks, Budgets, Budgets, {Arr(<<"hot">>)})

\* Spec: a few bodies, so that two overlapping handlers stay explorable. The
\* version token a client sends is the updatedAt it last read: the row's
\* current one, or the one it was created with (stale once the row changed).
ConcPatches(row) ==
  {Obj("propertyType", Str("Plot")), Obj("budgetMax", Num(2))}
    \cup {Spread(Obj("budgetMax", Num(2)), Obj("updatedAt", JsonValue(row[f]))) :
            f \in {"updatedAt", "createdAt"}}

ConcCreateBodies == CreateBodies(Types, {Str("TWO")}, {Null}, {Num(1)}, {Arr(<<"hot">>)})

\* the ids a client may ask for: the rows there are, and one that does not exist
TargetIds == DOMAIN leads \cup {nextId}

\* ----------------------------------------------------------- specifications
\* Spec: two request slots whose handlers interleave at every await
Next ==
  \E p \in Procs :
       \/ \E b \in ConcCreateBodies, t \in Times :
            PostRequest(p, MaxRequests, "ip1", "u1", b, t)
       \/ \E id \in DOMAIN leads : \E b \in ConcPatches(leads[id]) :
            PutRequest(p, MaxRequests, "u1", id, b)
       \/ SvcGet(p)
       \/ \E t \in Times : SvcValidate(p, t)
       \/ DbUpdate(p)
       \/ \E t \in Times : DbCreate(p, t)
       \/ DbHistory(p)

Spec == Init /\ [][Next]_vars

\* SpecSeq: one request at a time, over the wide input sets
NextSeq ==
  \/ \E b \in SeqCreateBodies, t \in Times :
       PostRequest(1, MaxSeqRequests, "ip1", "u1", b, t)
  \/ \E u \in Users, id \in TargetIds, b \in SeqPatches :
       PutRequest(1, MaxSeqRequests, u, id, b)
  \/ SvcGet(1)
  \/ \E t \in Times : SvcValidate(1, t)
  \/ DbUpdate(1)
  \/ \E t \in Times : DbCreate(1, t)
  \/ DbHistory(1)

SpecSeq == Init /\ [][NextSeq]_vars

\* SpecRL: requests of two clients against the rate limiter as time passes
NextRL ==
  \/ \E c \in ClientIds : RlRequest(c)
  \/ \E d \in {1, RATE_LIMIT_WINDOW - 1} : RlTick(d)

\* the limiter does not depend on the revision of the service
InitRL == Init /\ build = "plain"

SpecRL == InitRL /\ [][NextRL]_vars

\* SpecRetry: one client that keeps sending requests while time keeps passing
NextRetry ==
  \/ RlRequest("ip1")
  \/ \E d \in {1, RATE_LIMIT_WINDOW - 1} : RlTick(d)

SpecRetry ==
  /\ InitRL
  /\ [][NextRetry]_vars
  /\ WF_vars(RlRequest("ip1"))
  /\ WF_vars(\E d \in {1, RATE_LIMIT_WINDOW - 1} : RlTick(d))

\* SpecLife: creates, updates and deletes of one user in two interleaved
\* slots, where any awaited database call may also reject
LifeCreateBodies == CreateBodies({Str("Apartment")}, {Str("TWO")}, {Null}, {Num(2)}, {Arr(<<"hot">>)})

LifePatches(row) ==
  {Obj("budgetMax", Num(1)), Obj("budgetMax", Num(2)),
   Spread(Obj("budgetMax", Num(1)), Obj("updatedAt", JsonValue(row["updatedAt"])))}

NextLife ==
  \E p \in Procs :
       \/ \E b \in LifeCreateBodies, t \in Times :
            PostRequest(p, MaxLifeRequests, "ip1", "u1", b, t)
       \/ \E id \in DOMAIN leads : \E b \in LifePatches(leads[id]) :
            PutRequest(p, MaxLifeRequests, "u1", id, b)
       \/ \E id \in DOMAIN leads : DelRequest(p, MaxLifeRequests, "u1", id)
       \/ SvcGet(p)
       \/ \E t \in Times : SvcValidate(p, t)
       \/ DbUpdate(p)
       \/ \E t \in Times : DbCreate(p, t)
       \/ DbHistory(p)
       \/ DelGet(p)
       \/ DelHistory(p)
       \/ DelDelete(p)
       \/ AwaitRejects(p)

SpecLife == Init /\ [][NextLife]_vars

\* SpecOne: creates, updates and deletes served one at a time; the bodies
\* include candidates that break the budget rule, the bhk rule or both, and a
\* patch that names ownerId
OneCreateBodies ==
  CreateBodies({Str("Apartment")}, {Str("TWO")}, {Null}, {Num(1)}, {Arr(<<"hot">>)})
    \cup CreateBodies({Str("Apartment")}, Bhks, {Num(2)}, {Num(1)}, {Arr(<<"hot">>)})
    \cup CreateBodies({Str("Apartment")}, {Null}, {Null}, {Num(1)}, {Arr(<<"hot">>)})

OnePatches(row) ==
  LET token == Obj("updatedAt", JsonValue(row["updatedAt"]))
      broken == Spread(Obj("budgetMin", Num(2)), Obj("budgetMax", Num(1)))
  IN {Obj("budgetMax", Num(2)), Spread(Obj("budgetMax", Num(2)), token),
      broken, Spread(broken, token),
      Spread(Obj("ownerId", Str("u2")), token)}

NextOne ==
  \/ \E b \in OneCreateBodies, t \in Times :
       PostRequest(1, MaxOneRequests, "ip1", "u1", b, t)
  \/ \E u \in Users, id \in DOMAIN leads : \E b \in OnePatches(leads[id]) :
       PutRequest(1, MaxOneRequests, u, id, b)
  \/ \E id \in TargetIds : DelRequest(1, MaxOneRequests, "u1", id)
  \/ SvcGet(1)
  \/ \E t \in Times : SvcValidate(1, t)
  \/ DbUpdate(1)
  \/ \E t \in Times : DbCreate(1, t)
  \/ DbHistory(1)
  \/ DelGet(1)
  \/ DelHistory(1)
  \/ DelDelete(1)

SpecOne == Init /\ [][NextOne]_vars

\* SpecGate: one client address, one user, one request at a time, as many
\* requests as it takes to use up the client's window and one more. The
\* client creates one lead; its other creates break the budget rule, so the
\* limiter counts them and the table stays small.
GateCreateBodies(rows) ==
  CreateBodies({Str("Apartment")}, {Str("TWO")},
               IF rows = EmptyObject THEN {Null, Num(2)} ELSE {Num(2)},
               {Num(1)}, {Arr(<<"hot">>)})

GatePatches(rows) ==
  IF 1 \in DOMAIN rows
    THEN {Spread(Obj("budgetMax", Num(2)),
                 Obj("updatedAt", JsonValue(rows[1]["updatedAt"])))}
  ELSE {Obj("budgetMax", Num(2))}

NextGate ==
  \/ \E b \in GateCreateBodies(leads), t \in Times :
       PostRequest(1, MaxGateRequests, "ip1", "u1", b, t)
  \/ \E b \in GatePatches(leads) : PutRequest(1, MaxGateRequests, "u1", 1, b)
  \/ SvcGet(1)
  \/ \E t \in Times : SvcValidate(1, t)
  \/ DbUpdate(1)
  \/ \E t \in Times : DbCreate(1, t)
  \/ DbHistory(1)

SpecGate == Init /\ [][NextGate]_vars

\* SpecList: leads of two users are created and updated one request at a time
\* and listed with and without filters.
ListCreateBodies ==
  CreateBodies(Types, {Str("TWO")}, {Null}, {Num(1)}, {Arr(<<"hot">>)})

ListPatches(row) ==
  {Spread(Obj("budgetMax", Num(2)), Obj("updatedAt", JsonValue(row["updatedAt"])))}

ListFilters ==
  {EmptyObject, Obj("propertyType", Str("all")), Obj("propertyType", Str("Plot")),
   Obj("ownerId", Str("u1")),
   Spread(Obj("propertyType", Str("Plot")), Obj("ownerId", Str("u1")))}

NextList ==
  \/ \E u \in Users, b \in ListCreateBodies, t \in Times :
       PostRequest(1, MaxListRequests, "ip1", u, b, t)
  \/ \E id \in DOMAIN leads : \E b \in ListPatches(leads[id]) :
       PutRequest(1, MaxListRequests, leads[id]["ownerId"].str, id, b)
  \/ \E page \in 1..MaxPage, limit \in 1..MaxLimit, f \in ListFilters :
       ListBuyers(1, MaxListRequests, page, limit, f)
  \/ SvcGet(1)
  \/ \E t \in Times : SvcValidate(1, t)
  \/ DbUpdate(1)
  \/ \E t \in Times : DbCreate(1, t)
  \/ DbHistory(1)

SpecList == Init /\ [][NextList]_vars

\* SpecCsv: rows are given to validateCSVRow. A row is the 13 columns of a
\* filled-in line with its budget columns replaced, or with one more column
\* replaced by an empty or a blank text, or a column short or long.
CsvBudgetTexts ==
  {NumberToString(n) : n \in 0..MaxCsvNumber}
    \cup {<<>>, <<" ">>, <<"a">>, <<"-", "1">>, <<" ", "1">>, <<"1", "a">>, <<"-">>}

CsvRow(budgetMin, budgetMax) ==
  [i \in 1..13 |-> IF i = 8 THEN budgetMin ELSE IF i = 9 THEN budgetMax ELSE <<"x">>]

CsvRows ==
  LET filled == {CsvRow(lo, hi) : lo \in CsvBudgetTexts, hi \in CsvBudgetTexts}
      oneReplaced == {[r EXCEPT ![c] = v] : r \in {CsvRow(<<"1">>, <<"1">>), CsvRow(<<>>, <<>>)},
                                            c \in (1..13) \ {8, 9}, v \in {<<>>, <<" ">>}}
      wrongLength == {SubSeq(CsvRow(<<"1">>, <<"2">>), 1, 12),
                      Append(CsvRow(<<"1">>, <<"2">>), <<"x">>), <<>>}
  IN filled \cup oneReplaced \cup wrongLength

NextCsv == \E row \in CsvRows : ValidateRow(1, MaxCsvRequests, row)

\* validateCSVRow is not part of either revision of the service
InitCsv == Init /\ build = "plain"

SpecCsv == InitCsv /\ [][NextCsv]_vars

\* SpecPage: one user creates leads and pages through the listing
PageFilters == {EmptyObject, Obj("propertyType", Str("Plot"))}

NextPage ==
  \/ \E b \in ListCreateBodies, t \in Times :
       PostRequest(1, MaxPageRequests, "ip1", "u1", b, t)
  \/ \E page \in 1..MaxPage, limit \in 1..MaxLimit, f \in PageFilters :
       ListBuyers(1, MaxPageRequests, page, limit, f)
  \/ \E t \in Times : DbCreate(1, t)
  \/ DbHistory(1)

\* getBuyers and getBuyersWithPagination are the same in both revisions
InitPage == Init /\ build = "plain"

SpecPage == InitPage /\ [][NextPage]_vars

\* ------------------------------------------------------------- properties
\* the version token of a request body, as an instant; -1 when there is none
TokenOf(body) ==
  IF "updatedAt" \in DOMAIN body /\ "iso" \in DOMAIN body["updatedAt"]
    THEN body["updatedAt"].iso
  ELSE -1

\* slot p holds an update that found its row and passed the ownership check
IsUpdate(p) == req[p].kind = "PUT" /\ req[p].seen # -1

\* the request of slot p commits its row update in this step
Commits(p) == req[p].pc = "db_update" /\ ~req[p].wrote /\ req'[p].wrote

\* slots p and q hold two updates of one lead that carry the same version
\* token T0, both read the lead at version T0, both stamped a later time than
\* T0 (so neither read the other's write), and both committed
C1_BothCommitted(p, q) ==
  /\ p # q
  /\ IsUpdate(p) /\ IsUpdate(q)
  /\ req[p].id = req[q].id
  /\ TokenOf(req[p].body) # -1
  /\ TokenOf(req[p].body) = TokenOf(req[q].body)
  /\ req[p].seen = TokenOf(req[p].body) /\ req[q].seen = TokenOf(req[q].body)
  /\ req[p].ts > req[p].seen /\ req[q].ts > req[q].seen
  /\ req[p].wrote /\ req[q].wrote

\* C1: when two updates of the same lead carry the same version token T0, both
\* read the lead at version T0 and are processed concurrently (each writes a
\* later timestamp than T0, so neither read the other's write), the system
\* never commits both: one is accepted and the other answered 409.
C1_NeverBothCommitted == \A p \in Procs, q \in Procs : ~C1_BothCommitted(p, q)

\* slot p takes an update of its own lead whose version token is older than
\* the updatedAt stored for the lead
C2_ArrivesStale(p) ==
  /\ Free(p, MaxRequests)
  /\ nreq' = nreq + 1
  /\ req'[p].kind = "PUT"
  /\ req'[p].seen # -1
  /\ TokenOf(req'[p].body) # -1
  /\ TokenOf(req'[p].body) < leads[req'[p].id]["updatedAt"].date

\* C2: an update whose version token is older than the updatedAt stored for
\* the lead is answered 409 on arrival, and neither the lead nor the history
\* changes.
C2_StaleTokenRejected ==
  [][\A p \in Procs :
       C2_ArrivesStale(p) =>
         /\ req'[p].status = 409
         /\ req'[p].pc = "done"
         /\ ~req'[p].wrote
         /\ leads' = leads
         /\ history' = history]_vars

C2_Witness ==
  \E p \in Procs :
    /\ IsUpdate(p)
    /\ TokenOf(req[p].body) # -1
    /\ TokenOf(req[p].body) < req[p].seen
    /\ req[p].status = 409

\* C3: whenever an update commits, the lead's updatedAt is strictly greater
\* than it was before the commit.
C3_UpdatedAtStrictlyIncreases ==
  [][\A p \in Procs :
       Commits(p) =>
         leads'[req[p].id]["updatedAt"].date > leads[req[p].id]["updatedAt"].date]_vars

\* C4: every persisted lead whose budgetMin and budgetMax are both numbers
\* (0 included) has budgetMin <= budgetMax.
C4_BudgetOrdered ==
  \A id \in DOMAIN leads :
    IsNum(leads[id]["budgetMin"]) /\ IsNum(leads[id]["budgetMax"])
      => leads[id]["budgetMin"].num <= leads[id]["budgetMax"].num

\* C5: every persisted lead of a residential property type (Apartment, Villa)
\* has a non-null bhk.
C5_ResidentialHasBhk ==
  \A id \in DOMAIN leads :
    isResidential(leads[id]["propertyType"]) => leads[id]["bhk"] # Null

PatchEqualsStored(body, row) ==
  \A k \in DOMAIN body : JsonValue(body[k]) = JsonValue(Get(row, k))

\* C7: an accepted update whose patch values all equal the stored values (the
\* tags and the version token in the body included) appends no history entry.
C7_NoHistoryForUnchangedPatch ==
  [][\A p \in Procs :
       (Commits(p) /\ PatchEqualsStored(req[p].body, leads[req[p].id]))
         => req'[p].pc # "db_history"]_vars

\* the fields, other than the system-managed updatedAt, whose content differs
\* between two versions of a row
DifferingFields(a, b) ==
  {k \in LeadKeys \ {"updatedAt"} : JsonValue(a[k]) # JsonValue(b[k])}

\* the diff an update hands to the history: none when it is empty
DiffWritten(p) == IF req'[p].pc = "db_history" THEN req'[p].diff ELSE EmptyObject

\* C8: the keys of the diff an update records are exactly the fields whose
\* value differs between the lead before and after the update; for each, the
\* oldValue is the value before and the newValue the value after.
C8_DiffIsTheChange ==
  [][\A p \in Procs :
       Commits(p) =>
         LET A == leads[req[p].id]
             B == leads'[req[p].id]
             diff == DiffWritten(p)
         IN /\ DOMAIN diff \ {"updatedAt"} = DifferingFields(A, B)
            /\ \A k \in DOMAIN diff \ {"updatedAt"} :
                 /\ diff[k]["oldValue"] = JsonValue(A[k])
                 /\ diff[k]["newValue"] = JsonValue(B[k])]_vars

\* the admitted requests of clientId that fall into its current window
\* [resetTime - RATE_LIMIT_WINDOW, resetTime)
AdmittedInWindow(clientId) ==
  IF clientId \notin DOMAIN rateLimitStore THEN 0
  ELSE Cardinality({i \in DOMAIN admitted[clientId] :
         /\ admitted[clientId][i] >= rateLimitStore[clientId].resetTime - RATE_LIMIT_WINDOW
         /\ admitted[clientId][i] < rateLimitStore[clientId].resetTime})

\* the window of clientId is open: it has one and its reset time is ahead
WindowOpen(clientId) ==
  clientId \in DOMAIN rateLimitStore /\ now < rateLimitStore[clientId].resetTime

\* C9: for every client, a request is rejected exactly when the client's
\* window is open and RATE_LIMIT_MAX_REQUESTS requests of that client have been
\* admitted in it; so each window admits exactly that many and rejects the
\* rest until its reset.
C9_AdmitsExactlyMaxPerWindow ==
  [][\A c \in ClientIds :
       (nreq' = nreq + 1 /\ rlResp'.clientId = c)
         => /\ rlResp'.limited
                 <=> (WindowOpen(c) /\ AdmittedInWindow(c) >= RATE_LIMIT_MAX_REQUESTS)
            /\ AdmittedInWindow(c)' <= RATE_LIMIT_MAX_REQUESTS]_vars

C9_Witness ==
  /\ rlResp.limited
  /\ AdmittedInWindow(rlResp.clientId) = RATE_LIMIT_MAX_REQUESTS
  /\ \E c \in ClientIds : c # rlResp.clientId /\ AdmittedInWindow(c) > 0

\* a header value read back as a number: -1 when it is not a string of digits
IsDecimal(s) == Len(s) > 0 /\ \A i \in DOMAIN s : \E d \in DOMAIN DigitChars : DigitChars[d] = s[i]

DigitValue(ch) == (CHOOSE d \in DOMAIN DigitChars : DigitChars[d] = ch) - 1

RECURSIVE DecimalValue(_)
DecimalValue(s) ==
  IF Len(s) = 0 THEN 0
  ELSE 10 * DecimalValue(SubSeq(s, 1, Len(s) - 1)) + DigitValue(s[Len(s)])

ParseHeader(s) == IF IsDecimal(s) THEN DecimalValue(s) ELSE -1

\* C10: the X-RateLimit-Remaining header of an answer is
\* max(0, RATE_LIMIT_MAX_REQUESTS - count) for the client's count; it is never
\* negative and never above RATE_LIMIT_MAX_REQUESTS.
C10_RemainingHeader ==
  rlResp # NoResp =>
    LET count == rateLimitStore[rlResp.clientId].count
        left == RATE_LIMIT_MAX_REQUESTS - count
        remaining == ParseHeader(rlResp.headers.remaining)
    IN /\ remaining = (IF left > 0 THEN left ELSE 0)
       /\ remaining >= 0
       /\ remaining <= RATE_LIMIT_MAX_REQUESTS

C10_Witness ==
  /\ rlResp # NoResp
  /\ rlResp.limited
  /\ rlResp.headers.remaining = <<"0">>
  /\ rateLimitStore[rlResp.clientId].count = RATE_LIMIT_MAX_REQUESTS

\* the history has an entry of the given action ("created", "deleted") for id
HasActionEntry(id, action) ==
  \E i \in DOMAIN history :
    /\ history[i].buyerId = Uuid(id)
    /\ "action" \in DOMAIN history[i].diff
    /\ history[i].diff["action"] = Str(action)

\* the request of slot p commits the removal of its row in this step
CommitsDelete(p) == req[p].pc = "del_delete" /\ ~req[p].wrote /\ req'[p].wrote

\* the request of slot p commits the insert of its row in this step
CommitsCreate(p) == req[p].pc = "db_create" /\ ~req[p].wrote /\ req'[p].wrote

\* C11: every accepted mutation leaves an audit entry. A committed create goes
\* on to write its "created" entry, a committed update that changed at least
\* one field goes on to write a diff entry, and a committed delete has its
\* "deleted" entry in the history.
C11_EveryMutationAudited ==
  [][\A p \in Procs :
       /\ CommitsCreate(p) => req'[p].pc = "db_history"
       /\ (Commits(p) /\ DifferingFields(leads[req[p].id], leads'[req[p].id]) # {})
            => req'[p].pc = "db_history"
       /\ CommitsDelete(p) => HasActionEntry(req[p].id, "deleted")]_vars

\* no handler is between its first database call and its answer
Quiescent == \A p \in Procs : req[p].pc \in {"idle", "done"}

\* C12: whatever await a create, update or delete fails at, the persisted
\* state is the whole operation or nothing of it. Once no operation is in
\* flight, a stored lead has its "created" entry and no "deleted" entry, and a
\* lead that was created and is gone has its "deleted" entry.
C12_AllOrNothing ==
  Quiescent =>
    \A id \in 1..(nextId - 1) :
      IF id \in DOMAIN leads
        THEN HasActionEntry(id, "created") /\ ~HasActionEntry(id, "deleted")
      ELSE HasActionEntry(id, "deleted")

\* C13: the history entries of a lead are appended in the order in which their
\* mutations committed: the handler that appends an entry is, among the
\* handlers whose commit on that lead still waits for its entry, the one that
\* committed first.
C13_HistoryInCommitOrder ==
  [][\A p \in Procs :
       (req[p].pc = "db_history" /\ Len(history') = Len(history) + 1 /\ req'[p].pc = "done")
         => \A i \in DOMAIN pending, j \in DOMAIN pending :
              (pending[j] = p /\ i < j) => req[pending[i]].id # req[p].id]_vars

ValidationErrors == {BudgetError, BhkError, ZodError}

\* the step in which the handler of slot p answers 400 with such a message
RejectedByValidation(p) ==
  /\ req'[p] # req[p]
  /\ req'[p].pc = "done"
  /\ req'[p].kind \in {"POST", "PUT"}
  /\ req'[p].status = 400
  /\ req'[p].error \in ValidationErrors

\* C15: a create or an update that validation rejects (budget rule, bhk rule,
\* or the schema of the Zod build) has written nothing: the step that rejects
\* it leaves every stored lead, updatedAt included, and the history as they
\* were, and the handler has not written before.
C15_RejectedWritesNothing ==
  [][\A p \in Procs :
       RejectedByValidation(p) =>
         /\ leads' = leads
         /\ history' = history
         /\ nextId' = nextId
         /\ ~req'[p].wrote]_vars

\* a rejected update of a stored lead, after an earlier rejected create
C15_Witness ==
  \E p \in Procs :
    /\ req[p].kind = "PUT" /\ req[p].pc = "done" /\ req[p].status = 400
    /\ req[p].error \in {BudgetError, BhkError}
    /\ req[p].id \in DOMAIN leads
    /\ nreq > Len(history) + 1

\* the merged record {...currentBuyer, ...buyerData} satisfies the field rules
\* of the form and the two cross-field rules
MergedRecordValid(currentBuyer, buyerData) ==
  LET mergedData == Spread(currentBuyer, buyerData)
  IN /\ BuyerFormSchema(mergedData, TRUE)
     /\ ~BudgetRangeBroken(mergedData["budgetMin"], mergedData["budgetMax"])
     /\ ~BhkMissing(mergedData["propertyType"], mergedData["bhk"])

\* the body carries no version token
NoToken(body) == "updatedAt" \notin DOMAIN body

\* C16: an update by the owner whose body carries no version token is never
\* answered 409, and when the merged record satisfies the field and
\* cross-field rules the validation lets it through to the row update, which
\* commits it, whatever the stored updatedAt is.
C16_TokenlessUpdateProceeds ==
  [][\A p \in Procs :
       /\ (req'[p] # req[p] /\ req'[p].kind = "PUT" /\ NoToken(req'[p].body))
            => req'[p].status # 409
       /\ (req[p].pc = "svc_validate" /\ req'[p] # req[p] /\ NoToken(req[p].body)
             /\ MergedRecordValid(req[p].cur, req[p].body))
            => req'[p].pc = "db_update"
       /\ (req[p].pc = "db_update" /\ req'[p] # req[p] /\ NoToken(req[p].body))
            => req'[p].wrote]_vars

\* the cross-field rules a candidate record breaks
Violations(budgetMin, budgetMax, propertyType, bhk) ==
  {e \in {BudgetError, BhkError} :
     \/ e = BudgetError /\ BudgetRangeBroken(budgetMin, budgetMax)
     \/ e = BhkError /\ BhkMissing(propertyType, bhk)}

\* C17: when validation rejects a create, the answer reports every rule the
\* candidate record breaks, not only the first one.
C17_AllViolationsReported ==
  [][\A p \in Procs :
       (RejectedByValidation(p) /\ req'[p].kind = "POST") =>
         Violations(req'[p].body["budgetMin"], req'[p].body["budgetMax"],
                    req'[p].body["propertyType"], Get(req'[p].body, "bhk"))
           \subseteq {req'[p].error}]_vars

\* the "created" entries of lead id: each holds the row as it was inserted
CreatedEntries(id) ==
  {i \in 1..Len(history) :
     /\ history[i].buyerId = Uuid(id)
     /\ "action" \in DOMAIN history[i].diff
     /\ history[i].diff["action"] = Str("created")}

\* C18: the id, ownerId and createdAt of every stored lead are the ones it was
\* created with, whatever the bodies of the updates since then contained.
C18_IdentityFieldsImmutable ==
  \A id \in DOMAIN leads : \A i \in CreatedEntries(id) :
    /\ leads[id]["id"] = history[i].diff["data"]["id"]
    /\ leads[id]["ownerId"] = history[i].diff["data"]["ownerId"]
    /\ JsonValue(leads[id]["createdAt"]) = history[i].diff["data"]["createdAt"]

\* a PUT arrives in slot p in this step
PutArrives(p) ==
  /\ req[p].pc \in {"idle", "done"}
  /\ nreq' = nreq + 1
  /\ req'[p].kind = "PUT"

\* C19: an update whose actor is not the stored ownerId of the lead is
\* answered 401 and leaves the leads and the history as they were; and every
\* update that commits was sent by the actor that created the lead.
C19_OnlyCreatorModifies ==
  [][\A p \in Procs :
       /\ (/\ PutArrives(p)
           /\ req'[p].id \in DOMAIN leads
           /\ leads[req'[p].id]["ownerId"] # Str(req'[p].user))
            => (req'[p].status = 401 /\ leads' = leads /\ history' = history)
       /\ Commits(p) =>
            \A i \in CreatedEntries(req[p].id) : history[i].changedBy = req[p].user]_vars

\* the limiter would turn away a request of clientId made now
Exhausted(clientId) == isRateLimited(rateLimitStore, clientId, now).limited

\* a create or an update arrives in slot p in this step
MutationArrives(p) ==
  /\ req[p].pc \in {"idle", "done"}
  /\ nreq' = nreq + 1
  /\ req'[p].kind \in {"POST", "PUT"}

\* C20: every create and every update goes through the rate limiter first: a
\* request that arrives while the window of its client is used up is turned
\* away on arrival and never enters the service, and no update commits for a
\* client whose window is used up. All requests here come from the one
\* client ip1, one at a time, and the window outlasts the run, so a client
\* that is exhausted when an update commits was exhausted when it arrived.
C20_ExhaustedClientWritesNothing ==
  [][\A p \in Procs :
       /\ (MutationArrives(p) /\ Exhausted("ip1")) =>
            /\ req'[p].pc = "done"
            /\ leads' = leads
            /\ history' = history
       /\ ~(Commits(p) /\ Exhausted("ip1"))]_vars

\* a listing is answered in slot p in this step
ListAnswered(p) ==
  /\ req[p].pc \in {"idle", "done"}
  /\ nreq' = nreq + 1
  /\ req'[p].kind = "LIST"

\* the stored leads a listing with these filters is to return
Wanted(rows, filters) ==
  {id \in DOMAIN rows :
     /\ BuyerWhere(rows[id], filters)
     /\ "ownerId" \in DOMAIN filters => rows[id]["ownerId"] = filters["ownerId"]}

\* C21: a listing with an ownerId filter returns only stored leads whose
\* ownerId is the filter value (and that pass the other filters), and its
\* totalCount is the number of those leads.
C21_OwnerFilterExact ==
  [][\A p \in Procs :
       (ListAnswered(p) /\ "ownerId" \in DOMAIN req'[p].body) =>
         /\ req'[p].total = Cardinality(Wanted(leads, req'[p].body))
         /\ \A i \in 1..Len(req'[p].list) :
              req'[p].list[i]["ownerId"] = req'[p].body["ownerId"]]_vars

\* C22: the Retry-After of a rejected request, in seconds, is the time left
\* until the resetTime of its client, up to rounding to a whole second, at
\* whatever point of the window the rejection happens.
C22_RetryAfterIsTimeLeft ==
  (rlResp # NoResp /\ rlResp.limited) =>
    LET hint == ParseHeader(rlResp.headers["retryAfter"]) * 1000
        left == ParseHeader(rlResp.headers["reset"]) - rlResp.at
    IN hint - left < 1000 /\ left - hint < 1000

\* C23: for budget bounds that are non-negative integers or null, the budget
\* check of a create fails with the budget-range error exactly when both
\* bounds are non-null (0 included) and budgetMin > budgetMax.
C23_BudgetRuleIff ==
  [][\A p \in Procs :
       (MutationArrives(p) /\ req'[p].kind = "POST" /\ req'[p].status # 429) =>
         LET budgetMin == req'[p].body["budgetMin"]
             budgetMax == req'[p].body["budgetMax"]
         IN (req'[p].error = BudgetError)
              <=> (budgetMin # Null /\ budgetMax # Null /\ budgetMin.num > budgetMax.num)]_vars

\* the entries of the history that an update wrote: field -> {oldValue, newValue}
IsDiffEntry(e) == "action" \notin DOMAIN e.diff

SystemFields == {"id", "createdAt", "updatedAt"}

\* C24: no diff entry written by an update has id, createdAt or updatedAt
\* among its changed fields, whatever keys the request body had.
C24_NoSystemFieldInDiff ==
  \A i \in 1..Len(history) :
    IsDiffEntry(history[i]) => DOMAIN history[i].diff \cap SystemFields = {}

\* ip1 was turned away, its window is over by now, and it can still retry
RejectedAndWindowOver ==
  /\ rlResp # NoResp /\ rlResp.limited /\ rlResp.clientId = "ip1"
  /\ rateLimitStore["ip1"].resetTime <= now
  /\ nreq < MaxRlRequests

\* the last answer admitted ip1 into a window that its request opened
AdmittedIntoNewWindow ==
  /\ rlResp # NoResp /\ ~rlResp.limited /\ rlResp.clientId = "ip1"
  /\ rateLimitStore["ip1"] = [count |-> 1, resetTime |-> rlResp.at + RATE_LIMIT_WINDOW]

\* C25: a request of a client made at a time now >= the resetTime of its
\* window is admitted and opens a new window with count 1 and resetTime
\* now + RATE_LIMIT_WINDOW; so a client that was turned away and keeps
\* retrying is admitted once the time has reached its resetTime.
C25_AdmittedAgainAfterReset ==
  /\ [][(/\ nreq' = nreq + 1
         /\ "ip1" \in DOMAIN rateLimitStore
         /\ rateLimitStore["ip1"].resetTime <= now)
          => (/\ ~rlResp'.limited
              /\ rateLimitStore'["ip1"] = [count |-> 1, resetTime |-> now + RATE_LIMIT_WINDOW])]_vars
  /\ (RejectedAndWindowOver ~> AdmittedIntoNewWindow)

\* ip1 used up a window, was turned away, and was admitted again in a new one
C25_Witness ==
  /\ AdmittedIntoNewWindow
  /\ nreq > RATE_LIMIT_MAX_REQUESTS + 1
  /\ Len(admitted["ip1"]) = nreq - 1

\* C26: when a delete removes its row, the snapshot in the "deleted" entry it
\* wrote is the row that is removed, however the delete interleaves with
\* updates of the same lead.
C26_SnapshotIsRemovedRecord ==
  [][\A p \in Procs :
       CommitsDelete(p) => req[p].diff = DeletedDiff(leads[req[p].id])]_vars

\* the elements at offsets (page-1)*n .. page*n-1 of the list s
PageWindow(s, page, n) ==
  LET first == (page - 1) * n
      rest == IF Len(s) > first THEN Len(s) - first ELSE 0
      k == IF rest < n THEN rest ELSE n
  IN [i \in 1..k |-> s[first + i]]

\* the answer in slot p is the page of some list that getBuyers may return
IsPageOfFilteredList(r, rows) ==
  \E buyers \in getBuyers(rows, r.body) :
    /\ r.list = PageWindow(buyers, r.page, r.limit)
    /\ r.total = Len(buyers)

\* slot p answers a listing right after it answered another page of the same
\* listing; one request is served at a time, so the table is the same for both
NextPageAnswered(p) ==
  /\ ListAnswered(p)
  /\ req[p].kind = "LIST" /\ req[p].pc = "done"
  /\ req[p].body = req'[p].body /\ req[p].limit = req'[p].limit
  /\ req[p].page # req'[p].page

\* C27: a listing of page >= 1 with page size n >= 1 returns the elements at
\* offsets (page-1)*n .. page*n-1 of the filtered list in updatedAt descending
\* order and the length of that list as totalCount; the pages of one listing
\* put together give the filtered list with no lead repeated or missing, so
\* two different pages of it never hold the same lead.
C27_PagesPartitionTheList ==
  [][\A p \in Procs :
       /\ ListAnswered(p) => IsPageOfFilteredList(req'[p], leads)
       /\ NextPageAnswered(p) =>
            \A i \in 1..Len(req[p].list), j \in 1..Len(req'[p].list) :
              req[p].list[i]["id"] # req'[p].list[j]["id"]]_vars

\* pages page, page+1, ... of size n cut from the one list buyers, in a row
RECURSIVE ConcatPages(_, _, _)
ConcatPages(buyers, page, n) ==
  IF (page - 1) * n >= Len(buyers) THEN <<>>
  ELSE getBuyersWithPagination(buyers, page, n).buyers \o ConcatPages(buyers, page + 1, n)

\* C27, as it holds: every listing returns the elements at offsets
\* (page-1)*n .. page*n-1 of the list its own query returned, which is the
\* filtered list in an updatedAt descending order, and that list's length as
\* totalCount; pages 1..ceil(totalCount/n) cut from one such list give that
\* list with no lead repeated or missing.
C27_PageIsWindowOfItsQuery ==
  /\ [][\A p \in Procs : ListAnswered(p) => IsPageOfFilteredList(req'[p], leads)]_vars
  /\ [](\A f \in PageFilters, n \in 1..MaxLimit : \A buyers \in getBuyers(leads, f) :
          ConcatPages(buyers, 1, n) = buyers)

\* a second page that is not empty, of a list longer than the page
C27_Witness ==
  \E p \in Procs :
    /\ req[p].kind = "LIST" /\ req[p].pc = "done"
    /\ req[p].page = 2 /\ Len(req[p].list) > 0
    /\ req[p].total > Len(req[p].list)

\* the columns validateCSVRow requires: fullName, phone, city, propertyType,
\* purpose, timeline, source
RequiredColumns == {1, 3, 4, 5, 7, 10, 11}

\* a budget column is empty or numeric: Number(text) is a number (a blank
\* text converts to 0)
EmptyOrNumeric(text) == text = <<>> \/ JsNumber(text) # NaN

\* C28: validateCSVRow(row) is true exactly when the row has 13 columns, the
\* fullName, phone, city, propertyType, purpose, timeline and source columns
\* are non-empty, budgetMin and budgetMax are each empty or numeric, and it is
\* not the case that both budgets are non-zero with budgetMin > budgetMax.
C28_ValidRowIff ==
  \A p \in Procs :
    req[p].kind = "CSV" =>
      LET row == req[p].row
      IN req[p].valid <=>
           /\ Len(row) = 13
           /\ \A c \in RequiredColumns : row[c] # <<>>
           /\ EmptyOrNumeric(row[8])
           /\ EmptyOrNumeric(row[9])
           /\ ~(/\ JsNumber(row[8]) # Num(0)
                /\ JsNumber(row[9]) # Num(0)
                /\ JsNumber(row[8]).num > JsNumber(row[9]).num)

\* an accepted row whose budgets are equal and not zero
C28_Witness ==
  \E p \in Procs :
    /\ req[p].kind = "CSV" /\ req[p].valid
    /\ JsNumber(req[p].row[8]) = JsNumber(req[p].row[9])
    /\ JsNumber(req[p].row[8]) \notin {Num(0), NaN}

\* the "deleted" entries of lead id
DeletedEntries(id) ==
  {i \in 1..Len(history) :
     /\ history[i].buyerId = Uuid(id)
     /\ "action" \in DOMAIN history[i].diff
     /\ history[i].diff["action"] = Str("deleted")}

\* C29: the history holds at most one "deleted" entry per lead, however
\* deletes interleave and whether or not a removal fails; and when no handler
\* is in flight, a lead that has a "deleted" entry is not stored any more.
C29_AtMostOneDeletedEntry ==
  \A id \in 1..(nextId - 1) :
    /\ Cardinality(DeletedEntries(id)) <= 1
    /\ (Quiescent /\ DeletedEntries(id) # {}) => id \notin DOMAIN leads

\* C30: the oldValue a diff entry records for a field is the value the field
\* had in storage when the update committed, however updates of the same lead
\* interleave.
C30_OldValueIsStoredValue ==
  [][\A p \in Procs :
       (Commits(p) /\ req'[p].pc = "db_history") =>
         \A k \in DOMAIN req'[p].diff :
           req'[p].diff[k]["oldValue"] = JsonValue(leads[req[p].id][k])]_vars

====
